---- MODULE Spec2Model ----
(***************************************************************************)
(* PyAmesp (PyAmesp/amesp.py): the reader of Amesp output transcripts      *)
(* (.aop files) and the writer and reader of Amesp input transcripts       *)
(* (.aip files).                                                           *)
(*                                                                         *)
(* An output transcript is modelled as the sequence of its recognisable    *)
(* sections in file order.  Each section carries its kind (the banner the  *)
(* regular expression of one extractor matches) and its body; the body of  *)
(* the p-th section of a transcript is the integer p, so that no two       *)
(* sections of a transcript have the same body and every value that an     *)
(* extractor returns can be traced to the occurrence it was read from.     *)
(* The transcripts read are all the short sequences of sections, in any    *)
(* order, and the longer ones that hold the sections step by step.         *)
(* Multiplication by a unit factor of ase.units is kept symbolic: a        *)
(* quantity is a mantissa with the name of the factor it was multiplied by.*)
(***************************************************************************)
EXTENDS Integers, Sequences, FiniteSets, TLC

VARIABLES aop,      \* the output transcript (.aop files) handed to the readers
          atoms,    \* the caller's structure handed to the writer
          heap,     \* the parameter mappings, by the object that holds them
          aip,      \* the input transcript (.aip files): a sequence of lines
          call,     \* the last operation called, with its arguments
          ret       \* what that operation returned or raised

vars == <<aop, atoms, heap, aip, call, ret>>

(***************************************************************************)
(* Bounds of the model.                                                    *)
(***************************************************************************)
MaxSections == 5   \* sections in an output transcript
MaxSteps == 2      \* steps in an output transcript written step by step
MaxIndex == 2      \* read_aop is called with index in -(MaxIndex+1)..MaxIndex
MaxAtoms == 2      \* atoms in a structure handed to the writer
MaxKeys == 2       \* keys in the nested mapping of a parameter
MaxLines == 5      \* lines in an input transcript written by hand

(***************************************************************************)
(* Python values.                                                          *)
(***************************************************************************)
None == [none |-> TRUE]

Returns(v) == [exc |-> "none", val |-> v]

Raises(e, where) == [exc |-> e, at |-> where]

Min(a, b) == IF a < b THEN a ELSE b

Abs(x) == IF x < 0 THEN -x ELSE x

\* seq[:k] of Python, for k >= 0
Take(seq, k) == SubSeq(seq, 1, Min(k, Len(seq)))

\* [None for i in range(n)]
NoneList(n) == [i \in 1..n |-> None]

\* value * factor of ase.units, the factor kept by name
Quantity(m, u) == [mant |-> m, unit |-> u]

(***************************************************************************)
(* Output transcripts and the section extractors.                          *)
(***************************************************************************)
Kinds == {"xyz", "charge", "spin", "dipole", "energy", "gradient", "force"}

\* The transcript whose p-th section is of kind kinds[p]
Transcript(kinds) == [p \in DOMAIN kinds |-> [kind |-> kinds[p], body |-> p]]

\* The order of the sections within one step of a calculation
StepOrder == <<"xyz", "energy", "dipole", "charge", "spin", "gradient", "force">>

\* The kinds of the sections of a transcript written step by step, of which
\* count[kind] steps hold a section of the kind: the steps from step i on
RECURSIVE StepKinds(_, _)
StepKinds(count, i) ==
    IF \A kind \in Kinds : count[kind] < i THEN <<>>
    ELSE SelectSeq(StepOrder, LAMBDA kind : count[kind] >= i) \o StepKinds(count, i + 1)

\* re.findall(pattern, text): the bodies of the sections of one kind, in file order
FindAll(text, kind) ==
    LET found == SelectSeq(text, LAMBDA s : s.kind = kind)
    IN  [i \in DOMAIN found |-> found[i].body]

parse_aop_xyz(text) ==
    LET xyz_array == FindAll(text, "xyz")
    IN  [element |-> [i \in DOMAIN xyz_array |-> [symbols |-> xyz_array[i]]],
         position |-> [i \in DOMAIN xyz_array |-> [positions |-> xyz_array[i]]]]

\* parse_aop_charge without the replacement of an empty list
parse_aop_charge_unpadded(text, n) ==
    LET found == FindAll(text, "charge")
    IN  Take([i \in DOMAIN found |-> Quantity(found[i], "1")], n + 1)

parse_aop_charge(text, n) ==
    LET found == FindAll(text, "charge")
        charge_array == Take([i \in DOMAIN found |-> Quantity(found[i], "1")], n + 1)
    IN  IF Len(charge_array) = 0 THEN NoneList(n) ELSE charge_array

parse_aop_spin(text, n) ==
    LET found == FindAll(text, "spin")
        spin_array == Take([i \in DOMAIN found |-> Quantity(found[i], "1")], n + 1)
    IN  IF Len(spin_array) = 0 THEN NoneList(n) ELSE spin_array

parse_aop_dipole(text, n) ==
    LET dipole == FindAll(text, "dipole")
    IN  Take([i \in DOMAIN dipole |-> Quantity(dipole[i], "Bohr")], n + 1)

parse_aop_energy(text, n) ==
    LET energy == FindAll(text, "energy")
    IN  Take([i \in DOMAIN energy |-> Quantity(energy[i], "Hartree")], n + 1)

\* parse_aop_gradient without the factor -1
parse_aop_gradient_unsigned(text, n) ==
    LET force_data == FindAll(text, "gradient")
    IN  IF Len(force_data) > 0
        THEN Take([i \in DOMAIN force_data |->
                      Quantity(force_data[i], "Hartree/Bohr")], n + 1)
        ELSE NoneList(n)

parse_aop_gradient(text, n) ==
    LET force_data == FindAll(text, "gradient")
    IN  IF Len(force_data) > 0
        THEN Take([i \in DOMAIN force_data |->
                      Quantity(force_data[i] * (-1), "Hartree/Bohr")], n + 1)
        ELSE NoneList(n)

parse_aop_force(text) ==
    LET force_data == FindAll(text, "force")
    IN  IF Len(force_data) > 0
        THEN Quantity(force_data[1], "Hartree/Bohr")
        ELSE None

(***************************************************************************)
(* The trajectory assembler.                                               *)
(***************************************************************************)
\* The fields of an image's results in the order iread_aop reads them
ImageFields == <<"energy", "forces", "dipole", "charges", "magmoms">>

iread_aop(text) ==
    LET xyz == parse_aop_xyz(text)
        nimage == Len(xyz.element)
        seqs == [energy |-> parse_aop_energy(text, nimage),
                 forces |-> parse_aop_gradient(text, nimage),
                 dipole |-> parse_aop_dipole(text, nimage),
                 charges |-> parse_aop_charge(text, nimage),
                 magmoms |-> parse_aop_spin(text, nimage)]
        \* the fields f, in reading order, for which seqs[f][i] is out of range
        Short(i) == SelectSeq(ImageFields, LAMBDA f : Len(seqs[f]) < i)
        Image(i) == [atoms |-> [symbols |-> xyz.element[i].symbols,
                                positions |-> xyz.position[i].positions],
                     results |-> [f \in DOMAIN seqs |-> seqs[f][i]]]
        RECURSIVE Loop(_, _)
        Loop(i, images) ==
            IF i > nimage THEN Returns(images)
            ELSE IF Short(i) # <<>>
                 THEN Raises("IndexError", [field |-> Head(Short(i)), image |-> i - 1])
                 ELSE Loop(i + 1, Append(images, Image(i)))
    IN  Loop(1, <<>>)

\* list[index] of Python on a list of n elements: the 1-based position, 0 when
\* the index is out of range
ListIndex(n, index) ==
    LET k == IF index < 0 THEN index + n ELSE index
    IN  IF k < 0 \/ k >= n THEN 0 ELSE k + 1

\* read_aop with the forces of the image it returns taken from parse_aop_force
read_aop_force(text, index) ==
    LET it == iread_aop(text)
        i == ListIndex(Len(it.val), index)
    IN  IF it.exc # "none" THEN it
        ELSE IF i = 0
             THEN Raises("IndexError", [field |-> "index", image |-> index])
             ELSE Returns([it.val[i] EXCEPT !.results.forces = parse_aop_force(text)])

read_aop(text, index) ==
    LET it == iread_aop(text)
    IN  IF it.exc # "none" THEN it
        ELSE IF ListIndex(Len(it.val), index) = 0
             THEN Raises("IndexError", [field |-> "index", image |-> index])
             ELSE Returns(it.val[ListIndex(Len(it.val), index)])

(***************************************************************************)
(* The calculator's single-result mode.                                    *)
(***************************************************************************)
\* The results read_results takes with [-1], in the order it sets them
LastFields == <<"charge", "magmoms", "dipole", "energy">>

read_results(text) ==
    LET nimage == Len(parse_aop_xyz(text).element)
        seqs == [charge |-> parse_aop_charge(text, nimage),
                 magmoms |-> parse_aop_spin(text, nimage),
                 dipole |-> parse_aop_dipole(text, nimage),
                 energy |-> parse_aop_energy(text, nimage)]
        Empty == SelectSeq(LastFields, LAMBDA f : Len(seqs[f]) = 0)
        Last(f) == seqs[f][Len(seqs[f])]
    IN  IF Empty # <<>>
        THEN Raises("IndexError", [field |-> Head(Empty), image |-> -1])
        ELSE Returns([charge |-> Last("charge"),
                      magmoms |-> Last("magmoms"),
                      dipole |-> Last("dipole"),
                      energy |-> Last("energy"),
                      forces |-> parse_aop_force(text)])

(***************************************************************************)
(* The readers of output transcripts as operations.                        *)
(***************************************************************************)
Indices == (-(MaxIndex + 1))..MaxIndex

NoCall == [op |-> "none", arg |-> None]

\* Every reader consumes the stream it is given (fd.read()): one call per
\* opened transcript.
Called(op, arg, result) ==
    /\ call = NoCall
    /\ call' = [op |-> op, arg |-> arg]
    /\ ret' = result
    /\ UNCHANGED <<aop, atoms, heap, aip>>

NImage == Len(parse_aop_xyz(aop).element)

ParseAopXyz == Called("parse_aop_xyz", None, Returns(parse_aop_xyz(aop)))

ParseAopCharge ==
    Called("parse_aop_charge", NImage, Returns(parse_aop_charge(aop, NImage)))

ParseAopSpin ==
    Called("parse_aop_spin", NImage, Returns(parse_aop_spin(aop, NImage)))

ParseAopDipole ==
    Called("parse_aop_dipole", NImage, Returns(parse_aop_dipole(aop, NImage)))

ParseAopEnergy ==
    Called("parse_aop_energy", NImage, Returns(parse_aop_energy(aop, NImage)))

ParseAopGradient ==
    Called("parse_aop_gradient", NImage, Returns(parse_aop_gradient(aop, NImage)))

ParseAopForce == Called("parse_aop_force", None, Returns(parse_aop_force(aop)))

IreadAop == Called("iread_aop", None, iread_aop(aop))

ReadAop == \E index \in Indices : Called("read_aop", index, read_aop(aop, index))

ReadResults == Called("read_results", None, read_results(aop))

NoAtoms == [symbols |-> <<>>, positions |-> <<>>,
            initial_charges |-> 0, initial_magmoms |-> 0]

NoParameters == [caller |-> <<>>, kw |-> <<>>]

NoFile == [exists |-> FALSE, lines |-> <<>>]

Init ==
    /\ \/ \E n \in 0..MaxSections : \E kinds \in [1..n -> Kinds] :
              aop = Transcript(kinds)
       \/ \E count \in [Kinds -> 0..MaxSteps] : aop = Transcript(StepKinds(count, 1))
    /\ atoms = NoAtoms
    /\ heap = NoParameters
    /\ aip = NoFile
    /\ call = NoCall
    /\ ret = Returns(None)

Next ==
    \/ ParseAopXyz
    \/ ParseAopCharge
    \/ ParseAopSpin
    \/ ParseAopDipole
    \/ ParseAopEnergy
    \/ ParseAopGradient
    \/ ParseAopForce
    \/ IreadAop
    \/ ReadAop
    \/ ReadResults

Spec == Init /\ [][Next]_vars

(***************************************************************************)
(* Typed Python values, ordered mappings and formatted text.               *)
(*                                                                         *)
(* A dict is the sequence of its items in insertion order.  A text is the  *)
(* sequence of its lines; the empty string is the single line Blank.       *)
(***************************************************************************)
PyStr(s) == [type |-> "str", str |-> s]

PyFloat(x) == [type |-> "float", float |-> x]

PyBool(b) == [type |-> "bool", bool |-> b]

PyInt(n) == [type |-> "int", int |-> n]

PyList(l) == [type |-> "list", list |-> l]

PyDict(d) == [type |-> "dict", dict |-> d]

PyNone == [type |-> "NoneType"]

\* isinstance(x, types): bool is a subclass of int
IsInstance(x, types) == x.type \in types \/ (x.type = "bool" /\ "int" \in types)

Item(key, value) == [k |-> key, v |-> value]

Has(kw, key) == \E i \in DOMAIN kw : kw[i].k = key

Get(kw, key) == kw[CHOOSE i \in DOMAIN kw : kw[i].k = key].v

Pop(kw, key) == SelectSeq(kw, LAMBDA item : item.k # key)

\* '%d' % n
FmtD(n) == [sign |-> IF n < 0 THEN "-" ELSE "", digits |-> Abs(n)]

\* whether the regular expression \d+ matches the whole of a '%d' rendering
IsDigits(d) == d.sign = ""

Blank == [t |-> ""]

EndLine == [t |-> "end"]

\* '\n'.join(texts)
RECURSIVE JoinLines(_)
JoinLines(texts) ==
    IF texts = <<>> THEN <<Blank>>
    ELSE IF Len(texts) = 1 THEN Head(texts)
    ELSE Head(texts) \o JoinLines(Tail(texts))

(***************************************************************************)
(* The writer of input transcripts.                                        *)
(***************************************************************************)
\* ase.io.write(fd, atoms, format='xyz') without its two leading lines: one
\* line per atom, each coordinate printed with 15 decimals
io_write_xyz(structure) ==
    [i \in 1..Len(structure.symbols) |->
        [t |-> "atom", symbol |-> structure.symbols[i],
         xyz |-> structure.positions[i].fix]]

write_xyz(structure, kw) ==
    LET charge == IF Has(kw, "charge") THEN Get(kw, "charge").int
                  ELSE structure.initial_charges
        kw1 == Pop(kw, "charge")
        mult == IF Has(kw1, "mult") THEN Get(kw1, "mult").int
                ELSE Abs(structure.initial_magmoms) + 1
        kw2 == Pop(kw1, "mult")
    IN  [text |-> <<[t |-> ">xyz", charge |-> FmtD(charge), mult |-> FmtD(mult)]>>
                  \o io_write_xyz(structure) \o <<EndLine>>,
         kw |-> kw2]

write_job(kw) ==
    LET npara == IF Has(kw, "npara")
                 THEN <<<<[t |-> "%", key |-> "npara", val |-> FmtD(Get(kw, "npara").int)]>>>>
                 ELSE <<>>
        kw1 == Pop(kw, "npara")
        maxcore == IF Has(kw1, "maxcore")
                   THEN <<<<[t |-> "%", key |-> "maxcore",
                             val |-> FmtD(Get(kw1, "maxcore").int)]>>>>
                   ELSE <<>>
    IN  [text |-> JoinLines(npara \o maxcore), kw |-> kw1]

write_keywords(properties, kw) ==
    LET keywords == IF Has(kw, "keywords") THEN Get(kw, "keywords").list
                    ELSE <<"pbe0", "def2-svp">>
    IN  [text |-> <<[t |-> "!", words |-> keywords]>>, kw |-> Pop(kw, "keywords")]

\* ' %s %s' % (k, text), ' %s %f' % (k, x) and ' %s %d' % (k, n)
KvS(k, text) == [t |-> "kv", key |-> k, s |-> text]

KvF(k, x) == [t |-> "kv", key |-> k, f |-> x]

KvD(k, n) == [t |-> "kv", key |-> k, d |-> FmtD(n)]

\* kv_fmt with the test for int ahead of the test for bool
kv_fmt_int_first(k, v) ==
    IF IsInstance(v, {"str"}) THEN KvS(k, v.str)
    ELSE IF IsInstance(v, {"float"}) THEN KvF(k, v.float)
    ELSE IF IsInstance(v, {"int"})
         THEN KvD(k, IF v.type = "bool" THEN (IF v.bool THEN 1 ELSE 0) ELSE v.int)
    ELSE IF IsInstance(v, {"bool"}) THEN KvS(k, IF v.bool THEN "on" ELSE "off")
    ELSE None

kv_fmt(k, v) ==
    IF IsInstance(v, {"str"}) THEN KvS(k, v.str)
    ELSE IF IsInstance(v, {"float"}) THEN KvF(k, v.float)
    ELSE IF IsInstance(v, {"bool"}) THEN KvS(k, IF v.bool THEN "on" ELSE "off")
    ELSE IF IsInstance(v, {"int"}) THEN KvD(k, v.int)
    ELSE None

write_dict(kw) ==
    LET Scalars(v0) ==
            SelectSeq(v0, LAMBDA item : IsInstance(item.v, {"str", "bool", "int", "float"}))
        Kept(item) == IsInstance(item.v, {"dict"}) /\ Len(Scalars(item.v.dict)) > 0
        kept == SelectSeq(kw, Kept)
        block == [i \in DOMAIN kept |-> Item(kept[i].k, Scalars(kept[i].v.dict))]
        KvText(v0) ==
            LET kv_text == SelectSeq([i \in DOMAIN v0 |-> kv_fmt(v0[i].k, v0[i].v)],
                                     LAMBDA kv : kv # None)
            IN  JoinLines([i \in DOMAIN kv_text |-> <<kv_text[i]>>])
        BlockText(item) ==
            <<<<[t |-> ">", name |-> item.k]>>, KvText(item.v), <<EndLine>>>>
        RECURSIVE Texts(_)
        Texts(blocks) ==
            IF blocks = <<>> THEN <<>>
            ELSE BlockText(Head(blocks)) \o Texts(Tail(blocks))
    IN  IF Len(block) > 0 THEN JoinLines(Texts(block)) ELSE <<Blank>>

\* The mapping the writer works on: write_aip(fd, atoms, **kw) builds a new
\* mapping and deepcopy(kw) copies it, so it is an object of its own
WorkingAlias == "caller"

WorkingCopy == "kw"

\* write_aip without its filter of empty texts
write_aip_unfiltered(structure, properties, kw) ==
    LET job == write_job(kw)
        keywords == write_keywords(properties, job.kw)
        block == write_dict(keywords.kw)
        xyz == write_xyz(structure, keywords.kw)
    IN  [text |-> JoinLines(<<job.text, keywords.text, block, xyz.text>>),
         kw |-> xyz.kw]

\* The text write_aip hands to fd.write, and the working mapping it leaves
write_aip(structure, properties, kw) ==
    LET job == write_job(kw)
        keywords == write_keywords(properties, job.kw)
        block == write_dict(keywords.kw)
        xyz == write_xyz(structure, keywords.kw)
        text == <<job.text, keywords.text, block, xyz.text>>
    IN  [text |-> JoinLines(SelectSeq(text, LAMBDA t : t # <<Blank>>)),
         kw |-> xyz.kw]

(***************************************************************************)
(* The reader of input transcripts.                                        *)
(***************************************************************************)
\* re.findall(header + '\s*\n(.*?)\n\s*end', text, re.S): the interiors of the
\* regions, left to right and not overlapping.  A region runs from a header
\* line over at least one interior line to the first 'end' line after it.
\* headers is the set of the lines the header pattern matches.
RECURSIVE FindRegions(_, _, _)
FindRegions(headers, text, i) ==
    IF i > Len(text) THEN <<>>
    ELSE LET ends == {j \in (i + 2)..Len(text) : text[j].t = "end"}
             j == CHOOSE e \in ends : \A f \in ends : e <= f
         IN  IF i \in headers /\ ends # {}
             THEN <<SubSeq(text, i + 1, j - 1)>> \o FindRegions(headers, text, j + 1)
             ELSE FindRegions(headers, text, i + 1)

\* The Atoms object ase builds from lines 'symbol x y z'
AtomsOf(lines) ==
    [symbols |-> [i \in 1..Len(lines) |-> lines[i].symbol],
     positions |-> [i \in 1..Len(lines) |-> [fix |-> lines[i].xyz, rest |-> 0]],
     initial_charges |-> 0,
     initial_magmoms |-> 0]

\* ase.io.read(StringIO(xyz_text), format='xyz'): StringIO(None) is an empty
\* stream, in which ase finds no image to return
io_read_xyz(xyz_text) ==
    IF xyz_text = <<>>
    THEN Raises("StopIteration", [field |-> "io.read", image |-> -1])
    ELSE IF \E i \in DOMAIN xyz_text : xyz_text[i].t # "atom"
         THEN Raises("ValueError", [field |-> "io.read", image |-> -1])
         ELSE Returns(AtomsOf(xyz_text))

\* The matches of the pattern '>xyz\s+\d+\s+\d+\s*\n(.*?)\n\s*end'
XyzRegions(text) ==
    LET IsXyz(line) == line.t = ">xyz" /\ IsDigits(line.charge) /\ IsDigits(line.mult)
    IN  FindRegions({i \in DOMAIN text : IsXyz(text[i])}, text, 1)

\* The matches of the pattern '>zmat\s+\d+\s+\d+\s*\n(.*?)\n\s*end'
ZmatRegions(text) ==
    LET IsZmat(line) == line.t = ">zmat" /\ IsDigits(line.charge) /\ IsDigits(line.mult)
    IN  FindRegions({i \in DOMAIN text : IsZmat(text[i])}, text, 1)

parse_xyz(text) ==
    LET xyz_text == XyzRegions(text)
    IN  IF Len(xyz_text) = 1 THEN io_read_xyz(xyz_text[1]) ELSE io_read_xyz(<<>>)

\* ase.io.zmatrix.parse_zmatrix(zmat, defs=coord): iterating over None raises
\* TypeError; what the resolver makes of a region that is there is its own
\* affair (a structure, or an error for rows or definitions it cannot resolve)
parse_zmatrix(zmat, coord) ==
    IF zmat = <<>>
    THEN {Raises("TypeError", [field |-> "parse_zmatrix", image |-> -1])}
    ELSE {Raises("ValueError", [field |-> "parse_zmatrix", image |-> -1])}
         \cup (IF \A i \in DOMAIN zmat[1] : zmat[1][i].t = "atom"
               THEN {Returns(AtomsOf(zmat[1]))} ELSE {})

parse_zmat(text) ==
    LET coord == FindRegions({i \in DOMAIN text : text[i].t = ">coord"}, text, 1)
        zmat == ZmatRegions(text)
    IN  parse_zmatrix(IF Len(zmat) = 1 THEN zmat ELSE <<>>,
                      IF Len(coord) = 1 THEN coord[1] ELSE <<>>)

\* The outcomes of read_aip on a text
read_aip(text) ==
    IF \E i \in DOMAIN text : text[i].t = ">xyz" THEN {parse_xyz(text)}
    ELSE IF \E i \in DOMAIN text : text[i].t = ">zmat" THEN parse_zmat(text)
    ELSE {Returns(None)}

(***************************************************************************)
(* The writer and the reader of input transcripts as operations.           *)
(***************************************************************************)
\* Amesp.write_input: write_aip(fd, atoms, properties=properties, **p) on the
\* calculator's parameters p and an Atoms object
WriteAip ==
    /\ call = NoCall
    /\ ~aip.exists
    /\ LET written == write_aip(atoms, None, heap["caller"])
       IN  /\ heap' = [heap EXCEPT ![WorkingCopy] = written.kw]
           /\ aip' = [exists |-> TRUE, lines |-> written.text]
    /\ call' = [op |-> "write_aip",
                arg |-> [atoms |-> atoms, parameters |-> heap["caller"]]]
    /\ ret' = Returns(None)
    /\ UNCHANGED <<aop, atoms>>

\* read_aip on the file there is; the call records where the file came from
ReadAip ==
    /\ aip.exists
    /\ call.op # "read_aip"
    /\ \E result \in read_aip(aip.lines) : ret' = result
    /\ call' = [op |-> "read_aip", arg |-> call]
    /\ UNCHANGED <<aop, atoms, heap, aip>>

\* The values a key of a nested mapping is given
BlockValues ==
    {PyStr("mayer"), PyFloat(1), PyBool(TRUE), PyBool(FALSE), PyInt(2), PyNone}

\* The items a parameter set may hold for one key: none, or one of the values
Options(key, values) == {<<>>} \cup {<<Item(key, v)>> : v \in values}

NestedMappings ==
    UNION {{PyDict([i \in 1..n |-> Item("k" \o ToString(i), vs[i])])
            : vs \in [1..n -> BlockValues]} : n \in 0..MaxKeys}

Symbols == {"H", "O"}

\* sum(values[symbol] for symbol in symbols)
RECURSIVE SumOver(_, _)
SumOver(values, symbols) ==
    IF symbols = <<>> THEN 0
    ELSE values[Head(symbols)] + SumOver(values, Tail(symbols))

\* A structure: atom i sits at coordinate i, and the coordinates of an O atom
\* have digits beyond the 15th decimal; an O atom carries the initial charge -1
\* and the initial magnetic moment 1, an H atom carries none.  The sums stand
\* for get_initial_charges().sum() and get_initial_magnetic_moments().sum().
Structure(symbols) ==
    [symbols |-> symbols,
     positions |-> [i \in DOMAIN symbols |->
                       [fix |-> i, rest |-> IF symbols[i] = "O" THEN 1 ELSE 0]],
     initial_charges |-> SumOver([H |-> 0, O |-> -1], symbols),
     initial_magmoms |-> SumOver([H |-> 0, O |-> 1], symbols)]

\* A structure and a parameter set, nothing written yet
InitWrite ==
    /\ \E n \in 0..MaxAtoms : \E symbols \in [1..n -> Symbols] :
           atoms = Structure(symbols)
    /\ \E npara \in Options("npara", {PyInt(4)}) :
       \E maxcore \in Options("maxcore", {PyInt(1024)}) :
       \E charge \in Options("charge", {PyInt(-1), PyInt(1)}) :
       \E mult \in Options("mult", {PyInt(2)}) :
       \E keywords \in Options("keywords", {PyList(<<>>), PyList(<<"hf", "3-21g">>)}) :
       \E method \in Options("method", NestedMappings) :
       \E ope \in Options("ope", {PyDict(<<Item("out", PyInt(2))>>)}) :
           heap = [caller |-> npara \o maxcore \o charge \o mult \o keywords
                              \o method \o ope,
                   kw |-> <<>>]
    /\ aip = NoFile

\* The lines of an input transcript written by hand
HandLines ==
    {[t |-> ">xyz", charge |-> FmtD(0), mult |-> FmtD(1)],
     [t |-> ">xyz", charge |-> FmtD(-1), mult |-> FmtD(1)],
     [t |-> ">zmat", charge |-> FmtD(0), mult |-> FmtD(1)],
     [t |-> ">coord"],
     [t |-> "atom", symbol |-> "H", xyz |-> 0],
     [t |-> "!", words |-> <<"hf">>],
     EndLine}

\* An input transcript that is already there
InitRead ==
    /\ atoms = NoAtoms
    /\ heap = NoParameters
    /\ \E n \in 0..MaxLines : \E lines \in [1..n -> HandLines] :
           aip = [exists |-> TRUE, lines |-> lines]

InitAip ==
    /\ aop = <<>>
    /\ call = NoCall
    /\ ret = Returns(None)
    /\ (InitWrite \/ InitRead)

NextAip ==
    \/ WriteAip
    \/ ReadAip

SpecAip == InitAip /\ [][NextAip]_vars

(***************************************************************************)
(* Properties of the readers of output transcripts (under Spec).           *)
(***************************************************************************)
\* The occurrences of a section in the transcript being read, in file order
Occurrences(kind) == FindAll(aop, kind)

Count(kind) == Len(Occurrences(kind))

\* C1: for a transcript with exactly k 'Current Geometry' sections, whatever
\* the number of charge, spin, dipole, energy and gradient sections,
\* iread_aop does not fail and returns exactly k images.
C1_ImageCount ==
    call.op = "iread_aop" =>
        /\ ret.exc = "none"
        /\ Len(ret.val) = Count("xyz")

\* C2 as stated: with a 'Cartesian Force' section and 'Cartesian Gradient'
\* sections both present, read_aop returns the forces of the first Force
\* section times the unit factor, not negated (and iread_aop returns for
\* image i the negated i-th gradient times the unit factor).
C2_ForceFromForceSection ==
    (Count("force") > 0 /\ Count("gradient") > 0 /\ ret.exc = "none") =>
        /\ call.op = "read_aop" =>
               ret.val.results.forces
                   = Quantity(Occurrences("force")[1], "Hartree/Bohr")
        /\ call.op = "iread_aop" =>
               \A i \in 1..Len(ret.val) :
                   ret.val[i].results.forces
                       = Quantity(-Occurrences("gradient")[i], "Hartree/Bohr")

\* C2 amended: with both sections present, iread_aop and read_aop alike
\* return, for image i, forces equal to the negated i-th gradient times the
\* unit factor (read_aop selects one image of iread_aop's sequence); the
\* first Force section times the unit factor, not negated, is what
\* Amesp.read_results returns as forces.
C2_ForceGradientAsymmetry ==
    (Count("force") > 0 /\ Count("gradient") > 0 /\ ret.exc = "none") =>
        /\ call.op = "iread_aop" =>
               \A i \in 1..Len(ret.val) :
                   ret.val[i].results.forces
                       = Quantity(-Occurrences("gradient")[i], "Hartree/Bohr")
        /\ call.op = "read_aop" =>
               LET i == ListIndex(Count("xyz"), call.arg)
               IN  ret.val.results.forces
                       = Quantity(-Occurrences("gradient")[i], "Hartree/Bohr")
        /\ call.op = "read_results" =>
               ret.val.forces = Quantity(Occurrences("force")[1], "Hartree/Bohr")

C2_Witness ==
    /\ call.op = "read_aop"
    /\ ret.exc = "none"
    /\ Count("force") > 0
    /\ Count("gradient") > 0

\* C3: read_aop with index -1 returns the last image of iread_aop's sequence
\* (and fails as iread_aop fails); an index outside the range of the N images
\* raises IndexError; with N = 0 iread_aop returns the empty sequence and
\* read_aop raises IndexError.
C3_IndexSelection ==
    /\ (call.op = "iread_aop" /\ Count("xyz") = 0) => ret = Returns(<<>>)
    /\ call.op = "read_aop" =>
           LET seq == iread_aop(aop)
               n == Count("xyz")
           IN  /\ seq.exc # "none" => ret = seq
               /\ (seq.exc = "none" /\ call.arg = -1 /\ n > 0) =>
                      ret = Returns(seq.val[Len(seq.val)])
               /\ (call.arg >= n \/ call.arg < -n) => ret.exc = "IndexError"
               /\ n = 0 => ret.exc = "IndexError"

C3_Witness ==
    /\ call.op = "read_aop"
    /\ call.arg = -1
    /\ ret.exc = "none"
    /\ Count("xyz") >= 2

\* C4: with N >= 1 geometry sections and no charge section, every image
\* iread_aop returns has charges None, and the missing charge sections cause
\* no length mismatch and no exception.
C4_AbsentCharges ==
    (Count("xyz") >= 1 /\ Count("charge") = 0) =>
        /\ call.op = "parse_aop_charge" =>
               ret = Returns([i \in 1..Count("xyz") |-> None])
        /\ (call.op = "iread_aop" /\ ret.exc = "none") =>
               /\ Len(ret.val) = Count("xyz")
               /\ \A i \in 1..Len(ret.val) : ret.val[i].results.charges = None
        /\ (call.op = "iread_aop" /\ ret.exc # "none") =>
               ret.at.field # "charges"

C4_Witness ==
    /\ call.op = "iread_aop"
    /\ ret.exc = "none"
    /\ Count("xyz") >= 2
    /\ Count("charge") = 0

\* C5: each of the five non-geometry extractors, called with image count N on
\* a transcript with c occurrences of its section, returns the first
\* min(c, N+1) occurrences in file order when c > 0, and exactly N absent
\* elements when c = 0.
C5_Alignment ==
    \A kind \in {"charge", "spin", "dipole", "energy", "gradient"} :
        call.op = "parse_aop_" \o kind =>
            LET c == Count(kind)
                n == call.arg
            IN  /\ ret.exc = "none"
                /\ c > 0 =>
                       /\ Len(ret.val) = Min(c, n + 1)
                       /\ \A i \in 1..Len(ret.val) :
                              Abs(ret.val[i].mant) = Occurrences(kind)[i]
                /\ c = 0 => ret.val = [i \in 1..n |-> None]

(***************************************************************************)
(* Properties of the writer and the reader of input transcripts (under     *)
(* SpecAip).                                                               *)
(***************************************************************************)
\* The file was written by write_aip in the call before this one
ReadBack == call.op = "read_aip" /\ call.arg.op = "write_aip"

\* C6: for any structure S and parameter set P (any integer net charge,
\* negative ones too, any multiplicity, given as keys or derived from S),
\* read_aip on the text write_aip produced returns a structure with the
\* number of atoms, the element sequence and the positions of S (the positions
\* to the 15 decimals the text carries).  Stated for the structures of at
\* least one atom.
C6_RoundTrip ==
    (ReadBack /\ Len(atoms.symbols) >= 1) =>
        /\ ret.exc = "none"
        /\ ret.val # None
        /\ ret.val.symbols = atoms.symbols
        /\ Len(ret.val.positions) = Len(atoms.positions)
        /\ \A i \in DOMAIN atoms.positions :
               ret.val.positions[i].fix = atoms.positions[i].fix

Distinguished == {"npara", "keywords", "charge", "mult"}

\* C7: after write_aip returns, the caller's parameter set holds the keys and
\* values it held before the call, nested mappings and the keywords list
\* included; npara, keywords, charge and mult are removed from the writer's
\* working copy only.
C7_CallerParametersKept ==
    /\ call.op = "write_aip" =>
           /\ heap["caller"] = call.arg.parameters
           /\ heap["kw"]
                  = SelectSeq(call.arg.parameters, LAMBDA item : item.k \notin Distinguished)
    /\ ReadBack => heap["caller"] = call.arg.arg.parameters

C7_Witness ==
    /\ call.op = "write_aip"
    /\ \A key \in Distinguished : Has(heap["caller"], key)
    /\ Has(heap["caller"], "method")
    /\ \A key \in Distinguished : ~Has(heap["kw"], key)

\* The group a line of a written text belongs to: 1 job control, 2 keywords,
\* 3 named blocks, 4 geometry; 0 for a blank line
Group(text, p) ==
    CASE text[p].t = "%" -> 1
      [] text[p].t = "!" -> 2
      [] text[p].t \in {">", "kv"} -> 3
      [] text[p].t \in {">xyz", "atom"} -> 4
      [] text[p].t = "end" -> IF \E q \in 1..(p - 1) : text[q].t = ">xyz" THEN 4 ELSE 3
      [] OTHER -> 0

\* The scalar keys of a nested mapping: text, real, boolean or integer values
ScalarItems(mapping) ==
    SelectSeq(mapping, LAMBDA item : item.v.type \in {"str", "float", "bool", "int"})

\* Groups in the order job control, keywords, named blocks, geometry; the job
\* control group is there exactly when npara or maxcore is a key, the named
\* block group exactly when some nested mapping has a scalar key; one keyword
\* line and one geometry header in every text
GroupsInOrder(text, parameters) ==
    LET group == SelectSeq([p \in DOMAIN text |-> Group(text, p)], LAMBDA g : g # 0)
    IN  /\ \A p \in 1..(Len(group) - 1) : group[p] <= group[p + 1]
        /\ (\E p \in DOMAIN group : group[p] = 1)
               <=> (Has(parameters, "npara") \/ Has(parameters, "maxcore"))
        /\ (\E p \in DOMAIN group : group[p] = 3)
               <=> (\E i \in DOMAIN parameters :
                        /\ parameters[i].v.type = "dict"
                        /\ ScalarItems(parameters[i].v.dict) # <<>>)
        /\ Len(SelectSeq(text, LAMBDA line : line.t = "!")) = 1
        /\ Len(SelectSeq(text, LAMBDA line : line.t = ">xyz")) = 1

\* C8 as stated: the groups come in the order job control, keywords, named
\* blocks, geometry, an empty group is left out, the keyword and the geometry
\* group are in every text, and the groups are separated by blank lines.
C8_BlankLineSeparated ==
    call.op = "write_aip" =>
        /\ GroupsInOrder(aip.lines, call.arg.parameters)
        /\ \A p \in 1..(Len(aip.lines) - 1) :
               (Group(aip.lines, p) # 0 /\ Group(aip.lines, p + 1) # 0) =>
                   Group(aip.lines, p) = Group(aip.lines, p + 1)

\* C8 amended: the groups come in the order job control, keywords, named
\* blocks, geometry, an empty group is left out with its separator, the
\* keyword and the geometry group are in every text, and the groups are
\* joined by a single newline: the text has no blank line.
C8_GroupOrder ==
    call.op = "write_aip" =>
        /\ GroupsInOrder(aip.lines, call.arg.parameters)
        /\ \A p \in DOMAIN aip.lines : Group(aip.lines, p) # 0

C8_Witness ==
    /\ call.op = "write_aip"
    /\ ~Has(call.arg.parameters, "npara")
    /\ ~Has(call.arg.parameters, "maxcore")
    /\ Has(call.arg.parameters, "method")
    /\ \E p \in DOMAIN aip.lines : Group(aip.lines, p) = 3
    /\ Len(call.arg.atoms.symbols) >= 2

\* C9: read_aip returns None and raises nothing when neither '>xyz' nor
\* '>zmat' is in the text, when '>xyz' is there and the '>xyz <charge> <mult>
\* ... end' region does not occur exactly once, and when no '>xyz' but '>zmat'
\* is there and the '>zmat <charge> <mult> ... end' region does not occur
\* exactly once.
C9_SilentNoResult ==
    call.op = "read_aip" =>
        LET text == aip.lines
            xyz == \E i \in DOMAIN text : text[i].t = ">xyz"
            zmat == \E i \in DOMAIN text : text[i].t = ">zmat"
        IN  (\/ ~xyz /\ ~zmat
             \/ xyz /\ Len(XyzRegions(text)) # 1
             \/ ~xyz /\ zmat /\ Len(ZmatRegions(text)) # 1)
                => ret = Returns(None)

\* The lines of one group of a text, in the order of the text
LinesOfGroup(text, g) ==
    LET at == SelectSeq([p \in DOMAIN text |-> p], LAMBDA p : Group(text, p) = g)
    IN  [i \in DOMAIN at |-> text[at[i]]]

\* The line of a scalar key: text as given, a real in fixed-point notation, a
\* boolean as on or off, an integer as an integer
ScalarLine(item) ==
    CASE item.v.type = "str" -> KvS(item.k, item.v.str)
      [] item.v.type = "float" -> KvF(item.k, item.v.float)
      [] item.v.type = "bool" -> KvS(item.k, IF item.v.bool THEN "on" ELSE "off")
      [] item.v.type = "int" -> KvD(item.k, item.v.int)

\* The blocks of the nested mappings of a parameter set, in its order
RECURSIVE BlocksOf(_)
BlocksOf(parameters) ==
    IF parameters = <<>> THEN <<>>
    ELSE LET item == Head(parameters)
             scalars == IF item.v.type = "dict" THEN ScalarItems(item.v.dict) ELSE <<>>
         IN  (IF scalars = <<>> THEN <<>>
              ELSE <<[t |-> ">", name |-> item.k]>>
                   \o [i \in DOMAIN scalars |-> ScalarLine(scalars[i])]
                   \o <<EndLine>>)
             \o BlocksOf(Tail(parameters))

\* C10: for every parameter whose value is a nested mapping the text holds a
\* block '><name>' ... 'end' with one line per key of a text, real, boolean or
\* integer value, in the mapping's order and rendered by type (a boolean as on
\* or off, never as a number); keys of other values are dropped, and a block
\* left without a key is not written at all.
C10_NamedBlocks ==
    call.op = "write_aip" =>
        LinesOfGroup(aip.lines, 3) = BlocksOf(call.arg.parameters)

C10_Witness ==
    /\ call.op = "write_aip"
    /\ Has(call.arg.parameters, "ope")
    /\ Has(call.arg.parameters, "method")
    /\ LET method == Get(call.arg.parameters, "method").dict
       IN  /\ Len(method) = 2
           /\ method[1].v.type = "NoneType"
           /\ method[2].v.type = "bool"
    /\ \E p \in DOMAIN aip.lines : aip.lines[p] = KvS("k2", "on")

(***************************************************************************)
(* Claims about the calculator's single-result mode (Spec).                *)
(***************************************************************************)
\* The result field, if any, that an exception of read_results names
RaisedAt == IF ret.exc = "none" THEN "none" ELSE ret.at.field

\* C11: in the single-result mode (read_results), for any transcript and any
\* image count N >= 0, every optional section (charges, spin populations,
\* dipole, energy, Cartesian force) that does not occur in the transcript
\* leaves its result field None, and read_results raises no exception.
C11_AbsentSectionsAreNone ==
    call.op = "read_results" =>
        /\ ret.exc = "none"
        /\ Count("charge") = 0 => ret.val.charge = None
        /\ Count("spin") = 0 => ret.val.magmoms = None
        /\ Count("dipole") = 0 => ret.val.dipole = None
        /\ Count("energy") = 0 => ret.val.energy = None
        /\ Count("force") = 0 => ret.val.forces = None

\* What the code does for the same call: an absent dipole or energy section
\* always ends read_results in IndexError, an absent charge or spin section
\* does so when the transcript holds no geometry, and only otherwise is the
\* field of an absent section None.
C11_AbsentSectionsRaise ==
    call.op = "read_results" =>
        /\ ret.exc = "none" <=>
              /\ Count("dipole") > 0
              /\ Count("energy") > 0
              /\ Count("xyz") > 0 \/ (Count("charge") > 0 /\ Count("spin") > 0)
        /\ ret.exc # "none" => ret.exc = "IndexError"
        /\ ret.exc = "none" =>
              /\ Count("charge") = 0 => ret.val.charge = None
              /\ Count("spin") = 0 => ret.val.magmoms = None
              /\ Count("force") = 0 => ret.val.forces = None

\* read_results has raised on a transcript with a geometry, charges, spin
\* populations and an energy, of which only the dipole section is absent
C11_DipoleAbsentRaises ==
    /\ call.op = "read_results"
    /\ Count("xyz") > 0
    /\ Count("charge") > 0
    /\ Count("spin") > 0
    /\ Count("energy") > 0
    /\ Count("dipole") = 0
    /\ RaisedAt = "dipole"

====
